---------------------------- MODULE Spec2Model ----------------------------
(***************************************************************************)
(* Model of the board search of 2021/23 (amphipod.py): the location graph  *)
(* (Regular and Home locations and their links), the heuristic table, and  *)
(* the best-first search loop of main with its frontier, visited table and *)
(* best known result.                                                      *)
(*                                                                         *)
(* A state array ("data") is a function 0..14 -> Nat: slots 0..10 are the  *)
(* Regular locations, slots 11..14 the Home locations, a Home slot holding *)
(* 5*a + b for the unit a at the entrance of the room (the one get returns *)
(* first) and the unit b behind it.                                        *)
(***************************************************************************)
EXTENDS Integers, Sequences, FiniteSets, Bags, TLC

(***************************************************************************)
(* Bounds of the model.  Initial boards hold at most MaxUnits units.       *)
(***************************************************************************)
MaxUnits == 2

\* Unit types placed on the initial boards (a subset of 1..4).
StartTypes == {1, 2}

\* Regular locations that may hold a unit on an initial board: a doorway
\* cell (2, which has no links), the cell between the first two homes (3)
\* and the far corner (10).
StartRegular == {2, 3, 10}

\* Home locations that may hold units on an initial board.
StartHome == {11, 12}

(***************************************************************************)
(* The location graph.                                                     *)
(***************************************************************************)
Locations == 0 .. 14

\* locations 0..10 are Regular(i), locations 11..14 are Home(i + 11, i + 1)
IsHome(p) == p >= 11

\* Home._amphipod
HomeAmphipod(p) == p - 10

\* The calls of Location.connect, in program order: <<p1, p2, weight>>.
Connections ==
    << <<0, 1, 1>>, <<1, 3, 2>>, <<1, 11, 2>>, <<11, 3, 2>>, <<3, 5, 2>>,
       <<3, 12, 2>>, <<12, 5, 2>>, <<5, 7, 2>>, <<5, 13, 2>>, <<13, 7, 2>>,
       <<7, 9, 2>>, <<7, 14, 2>>, <<14, 9, 2>>, <<9, 10, 1>> >>

\* Location.connect / add_link: the list _links of location p after all the
\* connect calls, each link a pair <<place, weight>>.
LinksOf(p) ==
    LET F[i \in 0 .. Len(Connections)] ==
            IF i = 0 THEN << >>
            ELSE LET c == Connections[i]
                 IN  IF c[1] = p THEN Append(F[i - 1], <<c[2], c[3]>>)
                     ELSE IF c[2] = p THEN Append(F[i - 1], <<c[1], c[3]>>)
                     ELSE F[i - 1]
    IN  F[Len(Connections)]

\* Location.links
links == [p \in Locations |-> LinksOf(p)]

(***************************************************************************)
(* Regular locations.                                                      *)
(***************************************************************************)
Regular_is_active(p, data) == data[p] > 0

Regular_get(p, data) == data[p]

Regular_accepts(p, data, amphipod) == data[p] = 0

\* A put that writes a unit but never clears the cell.
Regular_put_never_clears(p, data, amphipod) ==
    [data |-> IF amphipod = 0 THEN data ELSE [data EXCEPT ![p] = amphipod],
     steps |-> 0]

\* put mutates the array and returns the extra steps: the model returns both.
Regular_put(p, data, amphipod) ==
    [data |-> [data EXCEPT ![p] = amphipod], steps |-> 0]

(***************************************************************************)
(* Home locations.                                                         *)
(***************************************************************************)
Home_is_active(p, data) ==
    /\ data[p] > 0
    /\ data[p] # HomeAmphipod(p)
    /\ data[p] # (5 * HomeAmphipod(p)) + HomeAmphipod(p)

\* A get that reports the unit behind the entrance first.
Home_get_deep_first(p, data) ==
    LET aa == data[p]
        a  == aa % 5
    IN  IF a > 0 THEN a ELSE aa \div 5

Home_get(p, data) ==
    LET aa == data[p]
        a  == aa \div 5
    IN  IF a > 0 THEN a ELSE aa % 5

Home_accepts(p, data, amphipod) ==
    LET aa == data[p]
        a  == aa \div 5
    IN  IF a > 0 THEN FALSE ELSE HomeAmphipod(p) = amphipod

\* Home.put that never counts the step between the two slots of the room.
Home_put_no_steps(p, data, amphipod) ==
    LET aa == data[p]
    IN  IF amphipod = 0
        THEN IF aa \div 5 = 0
             THEN [data |-> [data EXCEPT ![p] = 0], steps |-> 0]
             ELSE [data |-> [data EXCEPT ![p] = aa % 5], steps |-> 0]
        ELSE IF aa % 5 = 0
             THEN [data |-> [data EXCEPT ![p] = amphipod], steps |-> 0]
             ELSE [data |-> [data EXCEPT ![p] = (amphipod * 5) + (aa % 5)],
                   steps |-> 0]

\* Home.put that always moves a unit into the slot at the entrance.
Home_put_on_top(p, data, amphipod) ==
    LET aa == data[p]
    IN  IF amphipod = 0
        THEN IF aa \div 5 = 0
             THEN [data |-> [data EXCEPT ![p] = 0], steps |-> 1]
             ELSE [data |-> [data EXCEPT ![p] = aa % 5], steps |-> 0]
        ELSE [data |-> [data EXCEPT ![p] = (amphipod * 5) + (aa % 5)],
              steps |-> IF aa % 5 = 0 THEN 1 ELSE 0]

Home_put(p, data, amphipod) ==
    LET aa == data[p]
    IN  IF amphipod = 0
        THEN \* moving out
             IF aa \div 5 = 0
             THEN [data |-> [data EXCEPT ![p] = 0], steps |-> 1]
             ELSE [data |-> [data EXCEPT ![p] = aa % 5], steps |-> 0]
        ELSE \* moving in
             IF aa % 5 = 0
             THEN [data |-> [data EXCEPT ![p] = amphipod], steps |-> 1]
             ELSE [data |-> [data EXCEPT ![p] = (amphipod * 5) + (aa % 5)],
                   steps |-> 0]

(***************************************************************************)
(* Dispatch on the location's class.                                       *)
(***************************************************************************)
is_active(p, data) ==
    IF IsHome(p) THEN Home_is_active(p, data) ELSE Regular_is_active(p, data)

get(p, data) ==
    IF IsHome(p) THEN Home_get(p, data) ELSE Regular_get(p, data)

accepts(p, data, amphipod) ==
    IF IsHome(p) THEN Home_accepts(p, data, amphipod)
    ELSE Regular_accepts(p, data, amphipod)

put(p, data, amphipod) ==
    IF IsHome(p) THEN Home_put(p, data, amphipod)
    ELSE Regular_put(p, data, amphipod)

\* Location.candidate_moves: the links of p whose place accepts p's unit.
candidate_moves(p, data) ==
    LET a == get(p, data)
    IN  IF a = 0 THEN << >>
        ELSE SelectSeq(links[p], LAMBDA link : accepts(link[1], data, a))

(***************************************************************************)
(* The heuristic.                                                          *)
(***************************************************************************)
DISTANCES ==
    << <<0, 3, 50, 700, 9000>>,
       <<0, 2, 40, 600, 8000>>,
       <<0, 1, 30, 500, 7000>>,
       <<0, 2, 20, 400, 6000>>,
       <<0, 3, 10, 300, 5000>>,
       <<0, 4, 20, 200, 4000>>,
       <<0, 5, 30, 100, 3000>>,
       <<0, 6, 40, 200, 2000>>,
       <<0, 7, 50, 300, 1000>>,
       <<0, 8, 60, 400, 2000>>,
       <<0, 9, 70, 500, 3000>>,
       <<0, 0, 40, 600, 8000>>,
       <<0, 4, 0, 400, 6000>>,
       <<0, 6, 40, 0, 4000>>,
       <<0, 8, 60, 400, 0>>,
       <<0, 0, 50, 700, 9000>>,
       <<0, 5, 0, 500, 7000>>,
       <<0, 7, 50, 0, 5000>>,
       <<0, 9, 70, 500, 0>> >>

\* Distance reading the table one column to the right, so that an empty
\* slot counts as a unit of type 1.
Distance_shifted(i, t) == DISTANCES[i + 1][t + 2]

\* DISTANCES[i][t] of the source, which indexes from 0.
Distance(i, t) == DISTANCES[i + 1][t + 1]

RECURSIVE SumOver(_, _, _)
\* sum of f[i] for i in lo..hi
SumOver(f, lo, hi) == IF lo > hi THEN 0 ELSE f[lo] + SumOver(f, lo + 1, hi)

\* get_estimation without its first loop: units outside the rooms count 0.
get_estimation_rooms_only(data) ==
    SumOver([i \in 0 .. 3 |->
                Distance(i + 11, data[i + 11] \div 5)
                    + Distance(i + 15, data[i + 11] % 5)], 0, 3)

get_estimation(data) ==
    SumOver([i \in 0 .. 10 |-> Distance(i, data[i])], 0, 10)
    + SumOver([i \in 0 .. 3 |-> Distance(i + 11, data[i + 11] \div 5)
                                + Distance(i + 15, data[i + 11] % 5)], 0, 3)


(***************************************************************************)
(* The initial state array, as main builds it from the depicted board:     *)
(* one unit type per Regular slot, 5 * top + bottom per Home slot.  The    *)
(* boards of the model hold at most MaxUnits units, none of them above an  *)
(* empty bottom slot.                                                      *)
(***************************************************************************)
\* <<p, 0>>: the slot of a Regular location or the bottom slot of a Home;
\* <<p, 1>>: the top slot of a Home.
StartSlots ==
    {<<p, 0>> : p \in StartRegular \cup StartHome} \cup {<<p, 1>> : p \in StartHome}

BoardOf(f) ==
    [p \in Locations |->
        IF p \in StartRegular THEN f[<<p, 0>>]
        ELSE IF p \in StartHome THEN 5 * f[<<p, 1>>] + f[<<p, 0>>]
        ELSE 0]

InitBoards ==
    {BoardOf(f) : f \in
        {g \in [StartSlots -> {0} \cup StartTypes] :
            /\ Cardinality({s \in StartSlots : g[s] # 0}) <= MaxUnits
            /\ \A p \in StartHome : g[<<p, 1>>] # 0 => g[<<p, 0>>] # 0}}

\* {p for p in locations if p.is_active(data)}
ActiveSet(data) == {q \in Locations : is_active(q, data)}

(***************************************************************************)
(* The search loop of main.                                                *)
(***************************************************************************)
\* "best result at the start ~> infinity": 2**63 in the source.  TLC's
\* integers are 32 bits wide, so the model uses 2^30, which like 2**63 is
\* larger than every cost a board of the model can produce.
INFINITY == 1073741824

\* "10 * (a - 1)" for "10 ** (a - 1)": units of type 1 move for free.
Pow10_times(n) == 10 * n

RECURSIVE Pow10(_)
Pow10(n) == IF n <= 0 THEN 1 ELSE 10 * Pow10(n - 1)

\* State.clone: a copy of the array and a copy of the active set.
clone(state) ==
    [data |-> state.data, active_locations |-> state.active_locations]

\* NewEntry that charges the weight of the link only.
NewEntry_weight_only(energy, state, source, link) ==
    LET target == link[1]
        weight == link[2]
        new_s  == clone(state)
        a      == get(source, new_s.data)
        out    == put(source, new_s.data, 0)
        in     == put(target, out.data, a)
        new_e  == energy + Pow10(a - 1) * weight
        act1   == IF ~is_active(source, in.data)
                  THEN new_s.active_locations \ {source}
                  ELSE new_s.active_locations
        act2   == IF is_active(target, in.data)
                  THEN act1 \cup {target}
                  ELSE act1
    IN  [estimate |-> get_estimation(in.data) + new_e,
         energy   |-> new_e,
         state    |-> [data |-> in.data, active_locations |-> act2]]

\* NewEntry without "new_s.active_locations.remove(source)".
NewEntry_keeps_source(energy, state, source, link) ==
    LET target == link[1]
        weight == link[2]
        new_s  == clone(state)
        a      == get(source, new_s.data)
        out    == put(source, new_s.data, 0)
        in     == put(target, out.data, a)
        new_e  == energy + Pow10(a - 1) * (weight + out.steps + in.steps)
        act2   == IF is_active(target, in.data)
                  THEN new_s.active_locations \cup {target}
                  ELSE new_s.active_locations
    IN  [estimate |-> get_estimation(in.data) + new_e,
         energy   |-> new_e,
         state    |-> [data |-> in.data, active_locations |-> act2]]

\* The body of the two for loops of main for one source and one of its
\* candidate moves  link = <<target, weight>>:  the frontier entry it puts.
NewEntry(energy, state, source, link) ==
    LET target == link[1]
        weight == link[2]
        new_s  == clone(state)
        a      == get(source, new_s.data)
        out    == put(source, new_s.data, 0)
        in     == put(target, out.data, a)
        new_e  == energy + Pow10(a - 1) * (weight + out.steps + in.steps)
        act1   == IF ~is_active(source, in.data)
                  THEN new_s.active_locations \ {source}
                  ELSE new_s.active_locations
        act2   == IF is_active(target, in.data)
                  THEN act1 \cup {target}
                  ELSE act1
    IN  [estimate |-> get_estimation(in.data) + new_e,
         energy   |-> new_e,
         state    |-> [data |-> in.data, active_locations |-> act2]]

Range(seq) == {seq[i] : i \in 1 .. Len(seq)}

\* The pairs <<source, link>> the two for loops of main run through.
Moves(state) ==
    UNION {{<<source, link>> : link \in Range(candidate_moves(source, state.data))} :
              source \in state.active_locations}

\* The entries one expansion puts on the frontier, as a bag.
Successors(energy, state) ==
    LET ms  == Moves(state)
        new == {NewEntry(energy, state, m[1], m[2]) : m \in ms}
    IN  [x \in new |-> Cardinality({m \in ms : NewEntry(energy, state, m[1], m[2]) = x})]

\* list.__lt__ on two state arrays: lexicographic order.
ListLess(d1, d2) ==
    \E i \in Locations : d1[i] < d2[i] /\ \A j \in 0 .. (i - 1) : d1[j] = d2[j]

\* State.__lt__
StateLess(s1, s2) == ListLess(s1.data, s2.data)

\* The order of a queue that returns its largest entry first.
EntryLess_reversed(e1, e2) ==
    \/ e1.estimate > e2.estimate
    \/ /\ e1.estimate = e2.estimate
       /\ \/ e1.energy > e2.energy
          \/ e1.energy = e2.energy /\ StateLess(e2.state, e1.state)

\* The order of the PriorityQueue: tuple comparison of
\* (estimate, energy, state).
EntryLess(e1, e2) ==
    \/ e1.estimate < e2.estimate
    \/ /\ e1.estimate = e2.estimate
       /\ \/ e1.energy < e2.energy
          \/ e1.energy = e2.energy /\ StateLess(e1.state, e2.state)

\* The order of the frontier without the tie-break on the state array.
PriorityLess(e1, e2) ==
    \/ e1.estimate < e2.estimate
    \/ e1.estimate = e2.estimate /\ e1.energy < e2.energy

\* A queue that returns its entries in no particular order.
Poppable_unordered(q) == BagToSet(q)

\* todo.get(): the entries the queue may return.
Poppable(q) == {e \in BagToSet(q) : \A f \in BagToSet(q) : ~EntryLess(f, e)}

\* The entries a queue may return whose order breaks ties on
\* (estimate, energy) in any way.
PoppableAnyTie(q) == {e \in BagToSet(q) : \A f \in BagToSet(q) : ~PriorityLess(f, e)}

\* A get that reads the first entry and leaves it in the queue.
Remaining_peek(q, e) == q

\* What todo.get() leaves in the queue.
Remaining(q, e) == q (-) SetToBag({e})

\* "if result <= estimate: continue"
Pruned(res, e) == res <= e.estimate

\* The test "prev_energy is not None" alone: a recorded array is never
\* expanded again, whatever its cost.
Discarded_any_cost(table, e) == e.state.data \in DOMAIN table

\* "if prev_energy is not None and prev_energy <= energy: continue"
Discarded(table, e) ==
    e.state.data \in DOMAIN table /\ table[e.state.data] <= e.energy

\* "states[tdata] = energy"
Record(table, e) ==
    [d \in DOMAIN table \cup {e.state.data} |->
        IF d = e.state.data THEN e.energy ELSE table[d]]

\* The update of result without the test for an empty active set.
NewResult_any_state(res, e) == IF e.energy < res THEN e.energy ELSE res

\* "if len(state.active_locations) == 0 and energy < result: result = energy"
NewResult(res, e) ==
    IF e.state.active_locations = {} /\ e.energy < res THEN e.energy ELSE res

VARIABLES
    initial,   \* the initial state array (the list data of main)
    todo,      \* the frontier: a bag of entries
    states,    \* the visited table: state array -> energy
    result,    \* the best known goal cost
    popped,    \* the locals estimate, energy, state: << >> before the first pop
    branch,    \* what the last iteration did with its entry
    pc,        \* "loop" or "done"
    output,    \* what main has printed
    walk,      \* one path of legal moves through the graph of states
    heap,      \* the list and set objects of the states, by address
    frame,     \* the position of the two for loops of main
    lines,     \* the five lines main of amphipod.py reads from stdin
    sea,       \* the SeaFloor object and the locals of simulate
    alu        \* the locals of main of alu_bf.py

searchVars == <<initial, todo, states, result, popped, branch, pc, output>>

\* The variables of the other programs and of the parse.
extVars == <<lines, sea, alu>>

vars == <<searchVars, walk, heap, frame, extVars>>

\* The path of moves while the search runs: not started.
WalkIdle == walk = << >>

\* The objects, where states are modelled by their values: none.
HeapIdle == heap = << >> /\ frame = << >>

\* The input is not modelled and the other programs do not run.
ExtIdle == lines = << >> /\ sea = << >> /\ alu = << >>

SearchInit ==
    /\ WalkIdle
    /\ HeapIdle
    /\ ExtIdle
    /\ initial \in InitBoards
    /\ todo = SetToBag({[estimate |-> get_estimation(initial),
                         energy   |-> 0,
                         state    |-> [data |-> initial,
                                       active_locations |-> ActiveSet(initial)]]})
    /\ states = << >>
    /\ result = INFINITY
    /\ popped = << >>
    /\ branch = "none"
    /\ pc = "loop"
    /\ output = << >>

\* An iteration that pops e and skips it: the best known cost is no worse.
Prune(e) ==
    /\ pc = "loop"
    /\ Pruned(result, e)
    /\ todo' = Remaining(todo, e)
    /\ popped' = <<e>>
    /\ branch' = "prune"
    /\ UNCHANGED <<initial, states, result, pc, output, walk, heap, frame>>
    /\ UNCHANGED extVars

\* An iteration that pops e and skips it: its array is recorded at a cost
\* that is no higher.
Discard(e) ==
    /\ pc = "loop"
    /\ ~Pruned(result, e)
    /\ Discarded(states, e)
    /\ todo' = Remaining(todo, e)
    /\ popped' = <<e>>
    /\ branch' = "discard"
    /\ UNCHANGED <<initial, states, result, pc, output, walk, heap, frame>>
    /\ UNCHANGED extVars

\* An iteration that pops e, records it and puts its successors.
Expand(e) ==
    /\ pc = "loop"
    /\ ~Pruned(result, e)
    /\ ~Discarded(states, e)
    /\ states' = Record(states, e)
    /\ result' = NewResult(result, e)
    /\ todo' = Remaining(todo, e) (+) Successors(e.energy, e.state)
    /\ popped' = <<e>>
    /\ branch' = "expand"
    /\ UNCHANGED <<initial, pc, output, walk, heap, frame>>
    /\ UNCHANGED extVars

\* The frontier is empty: the loop ends and main prints result.
Finish ==
    /\ pc = "loop"
    /\ todo = EmptyBag
    /\ output' = <<result>>
    /\ pc' = "done"
    /\ UNCHANGED <<initial, todo, states, result, popped, branch, walk, heap, frame>>
    /\ UNCHANGED extVars

Next ==
    \/ \E e \in Poppable(todo) : Prune(e)
    \/ \E e \in Poppable(todo) : Discard(e)
    \/ \E e \in Poppable(todo) : Expand(e)
    \/ Finish

Spec == SearchInit /\ [][Next]_vars

\* The search under a queue that breaks ties on (estimate, energy) in any
\* order.
NextAnyTie ==
    \/ \E e \in PoppableAnyTie(todo) : Prune(e)
    \/ \E e \in PoppableAnyTie(todo) : Discard(e)
    \/ \E e \in PoppableAnyTie(todo) : Expand(e)
    \/ Finish

SpecTies == SearchInit /\ [][NextAnyTie]_vars

\* The loop of main is sequential code that runs until the queue is empty:
\* an iteration that can be taken is taken.
SpecFair == Spec /\ WF_vars(Next)

(***************************************************************************)
(* The graph of states by itself: from an initial board, any legal move    *)
(* (a source of the active set, a target of its candidate moves), built as *)
(* main builds a successor.  walk holds the board the path started from,   *)
(* the state before the last move, the state after it, and the move.       *)
(***************************************************************************)
WalkInit ==
    /\ HeapIdle
    /\ ExtIdle
    /\ initial \in InitBoards
    /\ todo = EmptyBag
    /\ states = << >>
    /\ result = INFINITY
    /\ popped = << >>
    /\ branch = "none"
    /\ pc = "moves"
    /\ output = << >>
    /\ walk = [parent |-> [data |-> initial, active_locations |-> ActiveSet(initial)],
               state  |-> [data |-> initial, active_locations |-> ActiveSet(initial)],
               source |-> 0, target |-> 0, weight |-> 0, cost |-> 0,
               moved  |-> FALSE]

Move(source, link) ==
    /\ pc = "moves"
    /\ LET n == NewEntry(0, walk.state, source, link)
       IN  walk' = [parent |-> walk.state,
                    state  |-> n.state,
                    source |-> source, target |-> link[1], weight |-> link[2],
                    cost   |-> n.energy,
                    moved  |-> TRUE]
    /\ UNCHANGED <<searchVars, heap, frame>>
    /\ UNCHANGED extVars

NextMove ==
    \E source \in walk.state.active_locations :
        \E link \in Range(candidate_moves(source, walk.state.data)) :
            Move(source, link)

SpecMoves == WalkInit /\ [][NextMove]_vars

(***************************************************************************)
(* The same graph from every board of at most MaxUnits units of any type   *)
(* on any slot the parse can fill (data[1..10] and the two slots of every  *)
(* room, the slot at the entrance only over an occupied slot behind it).    *)
(***************************************************************************)
\* The values of AMPHIPODS other than 0.
AllTypes == 1 .. 4

\* <<p, 0>>: the cell of Regular p, or the slot behind the entrance of
\* Home p; <<p, 1>>: the slot at the entrance of Home p.
WideSlots == {<<p, 0>> : p \in 1 .. 14} \cup {<<p, 1>> : p \in 11 .. 14}

RECURSIVE SlotSets(_)
SlotSets(k) ==
    IF k = 0 THEN {{}}
    ELSE LET smaller == SlotSets(k - 1)
         IN  smaller \cup {S \cup {x} : S \in smaller, x \in WideSlots}

WideBoardOf(S, t) ==
    [p \in Locations |->
        LET b == IF <<p, 0>> \in S THEN t[<<p, 0>>] ELSE 0
            a == IF <<p, 1>> \in S THEN t[<<p, 1>>] ELSE 0
        IN  IF IsHome(p) THEN (5 * a) + b ELSE b]

WideBoards(units) ==
    UNION {{WideBoardOf(S, t) : t \in [S -> AllTypes]} :
              S \in {X \in SlotSets(units) :
                        \A p \in 11 .. 14 : <<p, 1>> \in X => <<p, 0>> \in X}}

WideInit ==
    /\ HeapIdle
    /\ ExtIdle
    /\ initial \in WideBoards(MaxUnits)
    /\ todo = EmptyBag
    /\ states = << >>
    /\ result = INFINITY
    /\ popped = << >>
    /\ branch = "none"
    /\ pc = "moves"
    /\ output = << >>
    /\ walk = [parent |-> [data |-> initial, active_locations |-> ActiveSet(initial)],
               state  |-> [data |-> initial, active_locations |-> ActiveSet(initial)],
               source |-> 0, target |-> 0, weight |-> 0, cost |-> 0,
               moved  |-> FALSE]

SpecWide == WideInit /\ [][NextMove]_vars

(***************************************************************************)
(* The parse of the depicted board.  A line is a sequence of characters;   *)
(* lines[k][i] of the source, which indexes from 0, is Char(lines, k, i).  *)
(***************************************************************************)
AMPHIPODS == [c \in {".", "A", "B", "C", "D"} |->
                 CASE c = "." -> 0 [] c = "A" -> 1 [] c = "B" -> 2
                   [] c = "C" -> 3 [] c = "D" -> 4]

REV_AMPHIPODS == <<".", "A", "B", "C", "D">>

Char(ls, k, i) == ls[k + 1][i + 1]

\* "data = 15 * [0]", the for loop over range(1, 12), then the four
\* assignments to data[11] .. data[14].
parse(ls) ==
    LET hall == [p \in Locations |->
                    IF p \in 1 .. 11 THEN AMPHIPODS[Char(ls, 1, p)] ELSE 0]
    IN  [p \in Locations |->
            IF p >= 11
            THEN (5 * AMPHIPODS[Char(ls, 2, (2 * (p - 11)) + 3)])
                    + AMPHIPODS[Char(ls, 3, (2 * (p - 11)) + 3)]
            ELSE hall[p]]

\* The five lines that depict a board: hall[i] is the unit type at the
\* i-th hallway cell, top[j] and bottom[j] those of the j-th room (i and j
\* from 0).
Depict(hall, top, bottom) ==
    LET c(t) == REV_AMPHIPODS[t + 1]
    IN  << [i \in 1 .. 13 |-> "#"],
           <<"#">> \o [i \in 1 .. 11 |-> c(hall[i - 1])] \o <<"#">>,
           <<"#", "#", "#", c(top[0]), "#", c(top[1]), "#", c(top[2]), "#",
             c(top[3]), "#", "#", "#">>,
           <<" ", " ", "#", c(bottom[0]), "#", c(bottom[1]), "#", c(bottom[2]),
             "#", c(bottom[3]), "#">>,
           <<" ", " ">> \o [i \in 1 .. 9 |-> "#"] >>

\* The slots of a depicted board: <<"hall", i>>, <<"top", j>>, <<"bottom", j>>.
DepictedSlots ==
    ({"hall"} \X (0 .. 10)) \cup ({"top", "bottom"} \X (0 .. 3))

RECURSIVE DepictedSets(_)
DepictedSets(k) ==
    IF k = 0 THEN {{}}
    ELSE LET smaller == DepictedSets(k - 1)
         IN  smaller \cup {S \cup {x} : S \in smaller, x \in DepictedSlots}

\* The depicted boards of at most units units, no unit above an empty
\* slot of its room.
Inputs(units) ==
    UNION {{Depict([i \in 0 .. 10 |-> IF <<"hall", i>> \in S THEN t[<<"hall", i>>] ELSE 0],
                   [j \in 0 .. 3 |-> IF <<"top", j>> \in S THEN t[<<"top", j>>] ELSE 0],
                   [j \in 0 .. 3 |-> IF <<"bottom", j>> \in S THEN t[<<"bottom", j>>] ELSE 0]) :
               t \in [S -> AllTypes]} :
              S \in {X \in DepictedSets(units) :
                        \A j \in 0 .. 3 : <<"top", j>> \in X => <<"bottom", j>> \in X}}

ParseInit ==
    /\ WalkIdle
    /\ HeapIdle
    /\ lines \in Inputs(MaxUnits)
    /\ sea = << >>
    /\ alu = << >>
    /\ initial = << >>
    /\ todo = EmptyBag
    /\ states = << >>
    /\ result = INFINITY
    /\ popped = << >>
    /\ branch = "none"
    /\ pc = "parse"
    /\ output = << >>

Parse ==
    /\ pc = "parse"
    /\ initial' = parse(lines)
    /\ pc' = "parsed"
    /\ UNCHANGED <<todo, states, result, popped, branch, output, walk, heap, frame>>
    /\ UNCHANGED extVars

SpecParse == ParseInit /\ [][Parse]_vars

(***************************************************************************)
(* 2021/25 (seacucumber.py).  An array is a function from 0 .. n - 1 to    *)
(* characters.  sea holds the fields of the SeaFloor and the locals of     *)
(* simulate.  A digest stands for the array it was taken from: two arrays  *)
(* have the same digest exactly when they are equal.                       *)
(***************************************************************************)
MaxWidth == 3
MaxHeight == 3
MaxCucumbers == 3

\* No run of the model takes this many passes of the loop of simulate.
MaxSteps == 12

\* The index _move_transpose writes for the element at element_index of
\* line line_index: the position of the element in the transposed grid.
OutIndex_same_place(line_index, element_index, width, height) ==
    (line_index * width) + element_index

OutIndex(line_index, element_index, width, height) ==
    (element_index * height) + line_index

\* The value _move_transpose writes there.
Moved_never_leaves(prev_element, element, next_element, symbol) ==
    IF element = "." /\ prev_element = symbol THEN symbol ELSE element

MovedElement(prev_element, element, next_element, symbol) ==
    IF element = symbol /\ next_element = "." THEN "."
    ELSE IF element = "." /\ prev_element = symbol THEN symbol
    ELSE element

\* The passes of the two for loops from pass k on (k counts the passes in
\* the order of the loops), writing into data_out.
RECURSIVE TransposePasses(_, _, _, _, _, _)
TransposePasses(data_in, data_out, width, height, symbol, k) ==
    IF k >= width * height THEN data_out
    ELSE LET line_index    == k \div width
             element_index == k % width
             prev_element  == data_in[(line_index * width)
                                        + ((element_index + width - 1) % width)]
             element       == data_in[(line_index * width) + element_index]
             next_element  == data_in[(line_index * width)
                                        + ((element_index + 1) % width)]
         IN  TransposePasses(data_in,
                 [data_out EXCEPT
                     ![OutIndex(line_index, element_index, width, height)] =
                         MovedElement(prev_element, element, next_element, symbol)],
                 width, height, symbol, k + 1)

_move_transpose(data_in, data_out, width, height, symbol) ==
    TransposePasses(data_in, data_out, width, height, symbol, 0)

\* The second call of _move, on the buffer the first call filled.
SecondPass(floor, buffer) ==
    [floor EXCEPT !.data = _move_transpose(buffer, floor.data,
                                           floor.height, floor.width, "v"),
                  !.buffer = buffer]

\* _move: the fields _data and _buffer after the two calls.
_move(floor) ==
    CHOOSE moved \in {SecondPass(floor, buffer) :
                         buffer \in {_move_transpose(floor.data, floor.buffer,
                                                     floor.width, floor.height, ">")}} :
        TRUE

\* _sha256: the digest of _data.
DigestOfFirstCell(array) == <<"sha256", array[0]>>

_sha256(array) == <<"sha256", array>>

\* A keys.add that adds nothing.
KeysAdd_forgets(keys, sha) == keys

\* keys.add(sha)
KeysAdd(keys, sha) == keys \cup {sha}

\* The arrays of n cells with the cells of S occupied as t says.
SeaArray(n, S, t) == [i \in 0 .. n - 1 |-> IF i \in S THEN t[i] ELSE "."]

RECURSIVE CellSets(_, _)
CellSets(n, k) ==
    IF k = 0 THEN {{}}
    ELSE LET smaller == CellSets(n, k - 1)
         IN  smaller \cup {S \cup {x} : S \in smaller, x \in 0 .. n - 1}

\* SeaFloor.__init__ on width * height characters: the floors of at most
\* cucumbers sea cucumbers.
SeaFloors(cucumbers) ==
    UNION {UNION {{[width |-> w, height |-> h,
                    data |-> SeaArray(w * h, S, t),
                    buffer |-> SeaArray(w * h, S, t)] :
                      t \in [S -> {">", "v"}]} :
                   S \in CellSets(w * h, cucumbers)} :
              <<w, h>> \in (1 .. MaxWidth) \X (1 .. MaxHeight)}

SeaInit ==
    /\ WalkIdle
    /\ HeapIdle
    /\ lines = << >>
    /\ alu = << >>
    /\ initial = << >>
    /\ todo = EmptyBag
    /\ states = << >>
    /\ result = INFINITY
    /\ popped = << >>
    /\ branch = "none"
    /\ output = << >>
    /\ pc = "simulate"
    /\ \E floor \in SeaFloors(MaxCucumbers) :
          sea = [floor    |-> floor,
                 start    |-> floor.data,
                 before   |-> floor.data,
                 grids    |-> <<floor.data>>,
                 result   |-> 0,
                 last_sha |-> _sha256(floor.data),
                 keys     |-> KeysAdd({}, _sha256(floor.data))]

\* One pass of "while True" that ends at the bottom of the loop.  start is
\* the array simulate began with, before the array the pass began with,
\* grids the arrays _data has held, in order.
SeaContinue ==
    /\ pc = "simulate"
    /\ sea.result < MaxSteps
    /\ \E floor \in {_move(sea.floor)}, sha \in {_sha256(_move(sea.floor).data)} :
           /\ sha \notin sea.keys
           /\ sea' = [sea EXCEPT !.floor = floor,
                                 !.before = sea.floor.data,
                                 !.grids = Append(@, floor.data),
                                 !.result = @ + 1,
                                 !.keys = KeysAdd(@, sha),
                                 !.last_sha = sha]
    /\ UNCHANGED <<searchVars, walk, heap, frame, lines, alu>>

\* One pass that returns; main prints what simulate returns.
SeaReturn ==
    /\ pc = "simulate"
    /\ \E floor \in {_move(sea.floor)}, sha \in {_sha256(_move(sea.floor).data)} :
           /\ sha \in sea.keys
           /\ sha = sea.last_sha
           /\ sea' = [sea EXCEPT !.floor = floor,
                                 !.before = sea.floor.data,
                                 !.grids = Append(@, floor.data),
                                 !.result = @ + 1]
    /\ pc' = "returned"
    /\ output' = <<sea'.result>>
    /\ UNCHANGED <<initial, todo, states, result, popped, branch>>
    /\ UNCHANGED <<walk, heap, frame, lines, alu>>

\* One pass that raises ValueError.
SeaRaise ==
    /\ pc = "simulate"
    /\ \E floor \in {_move(sea.floor)}, sha \in {_sha256(_move(sea.floor).data)} :
           /\ sha \in sea.keys
           /\ sha # sea.last_sha
           /\ sea' = [sea EXCEPT !.floor = floor,
                                 !.before = sea.floor.data,
                                 !.grids = Append(@, floor.data),
                                 !.result = @ + 1]
    /\ pc' = "raised"
    /\ output' = <<"ValueError">>
    /\ UNCHANGED <<initial, todo, states, result, popped, branch>>
    /\ UNCHANGED <<walk, heap, frame, lines, alu>>

SeaNext == SeaContinue \/ SeaReturn \/ SeaRaise

SpecSea == SeaInit /\ [][SeaNext]_vars

\* simulate is sequential code: a pass that can run does run.
SpecSeaFair == SpecSea /\ WF_vars(SeaNext)

-----------------------------------------------------------------------------
\* alu_bf.py: the search for the largest accepted input of a program.

VARIABLE_INDICES == [w |-> 0, x |-> 1, y |-> 2, z |-> 3]

\* State(ip, variables); variables[i + 1] is variables[i] of the code.
State(ip, variables) == [ip |-> ip, variables |-> variables]

\* State.transform
transform(state, variable_index, value) ==
    State(state.ip + 1,
          [state.variables EXCEPT ![variable_index + 1] = value])

\* The instructions main builds from a line: Inp keeps _dst_index, a BinOp
\* keeps _dst_index, _src and which accessor reads it.
Inp(dst) == [name |-> "inp", dst_index |-> VARIABLE_INDICES[dst]]

BinOpVar(name, dst, src) ==
    [name |-> name, dst_index |-> VARIABLE_INDICES[dst],
     accessor |-> "variable", src |-> VARIABLE_INDICES[src]]

BinOpConst(name, dst, src) ==
    [name |-> name, dst_index |-> VARIABLE_INDICES[dst],
     accessor |-> "constant", src |-> src]

\* self._accessor(state, self._src)
Accessed(instruction, state) ==
    IF instruction.accessor = "variable"
    THEN state.variables[instruction.src + 1]
    ELSE instruction.src

\* lhs // rhs of Python rounds down, for a negative rhs too.
FloorDiv(lhs, rhs) == IF rhs > 0 THEN lhs \div rhs ELSE (0 - lhs) \div (0 - rhs)

\* lhs % rhs of Python has the sign of rhs.
FloorMod(lhs, rhs) == IF rhs > 0 THEN lhs % rhs ELSE 0 - ((0 - lhs) % (0 - rhs))

\* // and % raise ZeroDivisionError on rhs = 0.
Raises(name, rhs) == name \in {"div", "mod"} /\ rhs = 0

_get_result(name, lhs, rhs) ==
    CASE name = "add" -> lhs + rhs
      [] name = "div" -> FloorDiv(lhs, rhs)
      [] name = "mod" -> FloorMod(lhs, rhs)
      [] name = "mul" -> lhs * rhs
      [] name = "eql" -> IF lhs = rhs THEN 1 ELSE 0

\* Inp.execute: one successor for each digit, in the order of range(1, 10);
\* sid + str(x) is sid with the digit x behind it.
Inp_execute(instruction, state, sid) ==
    [x \in 1 .. 9 |->
        <<transform(state, instruction.dst_index, x), Append(sid, x)>>]

\* BinOp.execute
BinOp_execute(instruction, state, sid) ==
    <<<<transform(state, instruction.dst_index,
                  _get_result(instruction.name,
                              state.variables[instruction.dst_index + 1],
                              Accessed(instruction, state))),
        sid>>>>

execute(instruction, state, sid) ==
    IF instruction.name = "inp" THEN Inp_execute(instruction, state, sid)
    ELSE BinOp_execute(instruction, state, sid)

\* The programs of the model: inp w, a line on w, inp x, a line on z, a
\* line that ends the program.
FirstLines ==
    {BinOpConst("mod", "w", 3), BinOpConst("div", "w", 4),
     BinOpConst("mul", "w", 0), BinOpConst("add", "w", -9)}

SecondLines == {BinOpVar("add", "z", "x"), BinOpVar("eql", "z", "x")}

LastLines ==
    {BinOpConst("add", "z", -2), BinOpVar("eql", "z", "w"),
     BinOpVar("div", "z", "w"), BinOpVar("mod", "x", "w"),
     BinOpConst("mul", "z", -1)}

Programs ==
    {<<Inp("w"), first, Inp("x"), second, last>> :
        first \in FirstLines, second \in SecondLines, last \in LastLines}

\* main after the program is read: states = set(), one entry on the stack.
AluInit ==
    /\ WalkIdle
    /\ HeapIdle
    /\ lines = << >>
    /\ sea = << >>
    /\ initial = << >>
    /\ todo = EmptyBag
    /\ states = << >>
    /\ result = INFINITY
    /\ popped = << >>
    /\ branch = "none"
    /\ output = << >>
    /\ pc = "alu"
    /\ \E code \in Programs :
          alu = [code   |-> code,
                 states |-> {},
                 stack  |-> <<<<State(0, <<0, 0, 0, 0>>), << >>>>>>]

AluIdleRest ==
    UNCHANGED <<initial, todo, states, result, popped, branch, walk, heap,
                frame, lines, sea>>

\* The entry stack.pop() takes and what it leaves.
Top == alu.stack[Len(alu.stack)]

Rest == SubSeq(alu.stack, 1, Len(alu.stack) - 1)

\* "if state in states: continue"
AluSkip ==
    /\ pc = "alu"
    /\ Len(alu.stack) > 0
    /\ Top[1] \in alu.states
    /\ alu' = [alu EXCEPT !.stack = Rest]
    /\ UNCHANGED <<pc, output>>
    /\ AluIdleRest

\* The program is over with z = 0: print(sid); return.
AluPrint ==
    /\ pc = "alu"
    /\ Len(alu.stack) > 0
    /\ Top[1] \notin alu.states
    /\ Top[1].ip >= Len(alu.code)
    /\ Top[1].variables[3 + 1] = 0
    /\ alu' = [alu EXCEPT !.stack = Rest, !.states = @ \cup {Top[1]}]
    /\ output' = <<Top[2]>>
    /\ pc' = "printed"
    /\ AluIdleRest

\* The program is over with z # 0: nothing more in this pass.
AluReject ==
    /\ pc = "alu"
    /\ Len(alu.stack) > 0
    /\ Top[1] \notin alu.states
    /\ Top[1].ip >= Len(alu.code)
    /\ Top[1].variables[3 + 1] # 0
    /\ alu' = [alu EXCEPT !.stack = Rest, !.states = @ \cup {Top[1]}]
    /\ UNCHANGED <<pc, output>>
    /\ AluIdleRest

\* _get_result of the instruction at ip raises.
Faulty(state) ==
    LET instruction == alu.code[state.ip + 1]
    IN  /\ instruction.name # "inp"
        /\ Raises(instruction.name, Accessed(instruction, state))

\* stack.extend(code[state.ip].execute(state, sid))
AluExecute ==
    /\ pc = "alu"
    /\ Len(alu.stack) > 0
    /\ Top[1] \notin alu.states
    /\ Top[1].ip < Len(alu.code)
    /\ ~Faulty(Top[1])
    /\ alu' = [alu EXCEPT
                 !.stack = Rest \o execute(alu.code[Top[1].ip + 1], Top[1], Top[2]),
                 !.states = @ \cup {Top[1]}]
    /\ UNCHANGED <<pc, output>>
    /\ AluIdleRest

\* execute raises ZeroDivisionError, which nothing catches: main ends with
\* a traceback and nothing printed.
AluRaise ==
    /\ pc = "alu"
    /\ Len(alu.stack) > 0
    /\ Top[1] \notin alu.states
    /\ Top[1].ip < Len(alu.code)
    /\ Faulty(Top[1])
    /\ alu' = [alu EXCEPT !.stack = Rest, !.states = @ \cup {Top[1]}]
    /\ pc' = "raised"
    /\ UNCHANGED output
    /\ AluIdleRest

\* "while len(stack) > 0" is over: main returns having printed nothing.
AluEnd ==
    /\ pc = "alu"
    /\ Len(alu.stack) = 0
    /\ pc' = "ended"
    /\ UNCHANGED <<alu, output>>
    /\ AluIdleRest

AluNext ==
    \/ AluSkip
    \/ AluPrint
    \/ AluReject
    \/ AluExecute
    \/ AluRaise
    \/ AluEnd

SpecAlu == AluInit /\ [][AluNext]_vars

(***************************************************************************)
(* The search with its objects.  heap[a] is the list or the set at address *)
(* a; a State holds the address of its list (data) and the address of its  *)
(* set (active_locations); put, remove and add change the object at an     *)
(* address.  The keys of the visited table are tuples, which are values.   *)
(* One step per pop, per source of the outer for loop and per pass of the  *)
(* inner for loop.  The code compares addresses for identity only, so an   *)
(* address is a name: a pop, which drops the objects of the state popped   *)
(* before, also names the objects still in use 1, 2, ... in the order of   *)
(* the queue, and runs that differ in names only meet in one state.        *)
(***************************************************************************)
\* A clone that holds the list and the set of the state it was made from.
State_clone_shared(h, state) == [heap |-> h, state |-> state]

\* State.clone: copy.copy makes a new list and a new set.
State_clone(h, state) ==
    [heap  |-> h \o <<h[state.data], h[state.active_locations]>>,
     state |-> [data |-> Len(h) + 1, active_locations |-> Len(h) + 2]]

\* An entry with the values of its objects.
Deref(h, e) ==
    [estimate |-> e.estimate,
     energy   |-> e.energy,
     state    |-> [data |-> h[e.state.data],
                   active_locations |-> h[e.state.active_locations]]]

\* todo.get(): tuple comparison, State.__lt__ compares the lists.  Two
\* entries that differ in their objects only are returned in either order.
HeapPoppable(h, q) ==
    {e \in BagToSet(q) :
        \A f \in BagToSet(q) : ~EntryLess(Deref(h, f), Deref(h, e))}

\* The place of entry e of queue q in the order of the queue, entries that
\* the order does not tell apart taken in the order of their addresses.
Rank(h, q, e) ==
    Cardinality({f \in BagToSet(q) :
        \/ EntryLess(Deref(h, f), Deref(h, e))
        \/ /\ ~EntryLess(Deref(h, e), Deref(h, f))
           /\ f.state.data < e.state.data})

\* The objects in use after todo.get() has returned e: those of e named 1
\* and 2, those of the entry at[r] of rank r named 2r + 3 and 2r + 4.
CollectPlaced(h, e, rank, at) ==
    [heap   |-> [a \in 1 .. (2 * Cardinality(DOMAIN at)) + 2 |->
                   IF a = 1 THEN h[e.state.data]
                   ELSE IF a = 2 THEN h[e.state.active_locations]
                   ELSE IF a % 2 = 1 THEN h[at[(a - 3) \div 2].state.data]
                   ELSE h[at[(a - 4) \div 2].state.active_locations]],
     todo   |-> SetToBag({[f EXCEPT !.state = [data |-> (2 * rank[f]) + 3,
                                               active_locations |-> (2 * rank[f]) + 4]] :
                             f \in DOMAIN rank}),
     popped |-> [e EXCEPT !.state = [data |-> 1, active_locations |-> 2]]]

CollectRanked(h, e, rank) ==
    CollectPlaced(h, e, rank,
                  [r \in 0 .. Cardinality(DOMAIN rank) - 1 |->
                      CHOOSE f \in DOMAIN rank : rank[f] = r])

\* The same after todo.get() has returned e and left q.
Collect(h, q, e) ==
    CollectRanked(h, e, [f \in BagToSet(q) |-> Rank(h, q, f)])

\* One pass of the inner for loop: the heap after it and the entry it puts.
Successor(h, energy, state, source, link) ==
    LET target == link[1]
        weight == link[2]
        c      == State_clone(h, state)
        new_s  == c.state
        a      == get(source, c.heap[new_s.data])
        out    == put(source, c.heap[new_s.data], 0)
        h1     == [c.heap EXCEPT ![new_s.data] = out.data]
        in     == put(target, h1[new_s.data], a)
        h2     == [h1 EXCEPT ![new_s.data] = in.data]
        new_e  == energy + Pow10(a - 1) * (weight + out.steps + in.steps)
        h3     == IF ~is_active(source, h2[new_s.data])
                  THEN [h2 EXCEPT ![new_s.active_locations] = @ \ {source}]
                  ELSE h2
        h4     == IF is_active(target, h3[new_s.data])
                  THEN [h3 EXCEPT ![new_s.active_locations] = @ \cup {target}]
                  ELSE h3
    IN  [heap  |-> h4,
         entry |-> [estimate |-> get_estimation(h4[new_s.data]) + new_e,
                    energy   |-> new_e,
                    state    |-> new_s]]

HeapInit ==
    /\ WalkIdle
    /\ ExtIdle
    /\ initial \in InitBoards
    /\ heap = <<initial, ActiveSet(initial)>>
    /\ frame = << >>
    /\ todo = SetToBag({[estimate |-> get_estimation(initial),
                         energy   |-> 0,
                         state    |-> [data |-> 1, active_locations |-> 2]]})
    /\ states = << >>
    /\ result = INFINITY
    /\ popped = << >>
    /\ branch = "none"
    /\ pc = "pop"
    /\ output = << >>

HeapPrune(e) ==
    /\ pc = "pop"
    /\ Pruned(result, e)
    /\ LET g == Collect(heap, Remaining(todo, e), e)
       IN  heap' = g.heap /\ todo' = g.todo /\ popped' = <<g.popped>>
    /\ branch' = "prune"
    /\ UNCHANGED <<initial, states, result, pc, output, walk, frame>>
    /\ UNCHANGED extVars

HeapDiscard(e) ==
    /\ pc = "pop"
    /\ ~Pruned(result, e)
    /\ Discarded(states, Deref(heap, e))
    /\ LET g == Collect(heap, Remaining(todo, e), e)
       IN  heap' = g.heap /\ todo' = g.todo /\ popped' = <<g.popped>>
    /\ branch' = "discard"
    /\ UNCHANGED <<initial, states, result, pc, output, walk, frame>>
    /\ UNCHANGED extVars

\* The entry is recorded, and the outer for loop starts.
HeapVisit(e) ==
    /\ pc = "pop"
    /\ ~Pruned(result, e)
    /\ ~Discarded(states, Deref(heap, e))
    /\ states' = Record(states, Deref(heap, e))
    /\ result' = NewResult(result, Deref(heap, e))
    /\ LET g == Collect(heap, Remaining(todo, e), e)
       IN  heap' = g.heap /\ todo' = g.todo /\ popped' = <<g.popped>>
    /\ branch' = "expand"
    /\ pc' = "expand"
    /\ frame' = [done |-> {}, source |-> 0, moves |-> << >>]
    /\ UNCHANGED <<initial, output, walk>>
    /\ UNCHANGED extVars

\* "for source in state.active_locations": the iterator reads the set of
\* the popped state, in no specified order; candidate_moves returns a new
\* list.
NextSource(source) ==
    /\ pc = "expand"
    /\ frame.moves = << >>
    /\ source \in heap[popped[1].state.active_locations] \ frame.done
    /\ frame' = [done   |-> frame.done \cup {source},
                 source |-> source,
                 moves  |-> candidate_moves(source, heap[popped[1].state.data])]
    /\ UNCHANGED <<searchVars, walk, heap>>
    /\ UNCHANGED extVars

\* "for target, weight in ...": one pass of the inner loop.
NextTarget ==
    /\ pc = "expand"
    /\ frame.moves # << >>
    /\ LET s == Successor(heap, popped[1].energy, popped[1].state,
                          frame.source, Head(frame.moves))
       IN  /\ heap' = s.heap
           /\ todo' = todo (+) SetToBag({s.entry})
    /\ frame' = [frame EXCEPT !.moves = Tail(@)]
    /\ UNCHANGED <<initial, states, result, popped, branch, pc, output, walk>>
    /\ UNCHANGED extVars

\* The outer for loop has no source left.
EndFor ==
    /\ pc = "expand"
    /\ frame.moves = << >>
    /\ heap[popped[1].state.active_locations] \ frame.done = {}
    /\ pc' = "pop"
    /\ frame' = << >>
    /\ UNCHANGED <<initial, todo, states, result, popped, branch, output, walk, heap>>
    /\ UNCHANGED extVars

HeapFinish ==
    /\ pc = "pop"
    /\ todo = EmptyBag
    /\ output' = <<result>>
    /\ pc' = "done"
    /\ UNCHANGED <<initial, todo, states, result, popped, branch, walk, heap, frame>>
    /\ UNCHANGED extVars

NextHeap ==
    \/ \E e \in HeapPoppable(heap, todo) : HeapPrune(e)
    \/ \E e \in HeapPoppable(heap, todo) : HeapDiscard(e)
    \/ \E e \in HeapPoppable(heap, todo) : HeapVisit(e)
    \/ \E source \in Locations : NextSource(source)
    \/ NextTarget
    \/ EndFor
    \/ HeapFinish

SpecHeap == HeapInit /\ [][NextHeap]_vars

(***************************************************************************)
(* The graph of legal moves, and the cheapest way from each array to an    *)
(* array whose active set is empty, by exhaustive relaxation.              *)
(***************************************************************************)
\* The legal single-unit moves from array d: <<successor array, cost>>.
LegalMoves(d) ==
    LET st == [data |-> d, active_locations |-> ActiveSet(d)]
    IN  {<<n.state.data, n.energy>> :
            n \in {NewEntry(0, st, m[1], m[2]) : m \in Moves(st)}}

RECURSIVE Closure(_, _)
Closure(seen, frontier) ==
    IF frontier = {} THEN seen
    ELSE LET next == UNION {{mv[1] : mv \in LegalMoves(b)} : b \in frontier} \ seen
         IN  Closure(seen \cup next, next)

\* Every array some sequence of legal moves reaches from an initial board.
Reachable == Closure(InitBoards, InitBoards)

MinOf(S) == CHOOSE x \in S : \A y \in S : x <= y

RECURSIVE Relax(_)
Relax(rem) ==
    LET new == [b \in Reachable |->
                   MinOf({rem[b]} \cup
                         {mv[2] + rem[mv[1]] :
                             mv \in {k \in LegalMoves(b) : rem[k[1]] < INFINITY}})]
    IN  IF new = rem THEN rem ELSE Relax(new)

\* TrueCost[d]: the least summed cost of a sequence of legal moves from d to
\* an array with an empty active set; INFINITY when there is none.
TrueCost == Relax([b \in Reachable |-> IF ActiveSet(b) = {} THEN 0 ELSE INFINITY])


(***************************************************************************)
(* Properties of the search (Spec, SpecTies, SpecFair).                    *)
(***************************************************************************)
\* C1: when some sequence of legal moves leads from the initial board to an
\* array with an empty active set, the cost main prints is the least summed
\* cost of such a sequence.
OptimalCost ==
    (pc = "done" /\ TrueCost[initial] < INFINITY) => output = <<TrueCost[initial]>>

\* A solved board whose least cost is above the heuristic of the board.
OptimalCostWitness ==
    /\ pc = "done"
    /\ output = <<TrueCost[initial]>>
    /\ get_estimation(initial) < TrueCost[initial]
    /\ TrueCost[initial] < INFINITY

\* C2: the active set of every state on the frontier (the initial state and
\* every successor put there) is exactly the set of locations that are
\* active in its array.
ActiveSetsExact ==
    \A e \in BagToSet(todo) : e.state.active_locations = ActiveSet(e.state.data)

\* A successor on the frontier from which the update removed the source
\* and to which it added the target.
ActiveSetsWitness ==
    /\ branch = "expand"
    /\ \E e \in BagToSet(todo) :
          /\ e.energy > popped[1].energy
          /\ popped[1].state.active_locations \ e.state.active_locations # {}
          /\ e.state.active_locations \ popped[1].state.active_locations # {}

\* C3: when the loop ends and no array with an empty active set was ever
\* popped, what main prints is not a number.
NoSolutionIsExplicit ==
    (pc = "done" /\ \A d \in DOMAIN states : ActiveSet(d) # {}) => output[1] \notin Int

\* C5: the loop of main ends, and main prints.
Terminates == <>(pc = "done" /\ Len(output) = 1)

\* The loop has ended on a board without solution, after moving units.
TerminatesWitness ==
    /\ pc = "done"
    /\ TrueCost[initial] = INFINITY
    /\ Cardinality(DOMAIN states) > 1

\* C6: in every run, whichever entry of equal (estimate, energy) is popped
\* first, what main prints is the same value, fixed by the initial board.
ExpectedOutput == [b \in InitBoards |-> <<TrueCost[b]>>]

CostDetermined == pc = "done" => output = ExpectedOutput[initial]

\* A queue with two different entries of least (estimate, energy).
CostDeterminedWitness ==
    /\ pc = "loop"
    /\ \E e1, e2 \in PoppableAnyTie(todo) : e1 # e2

\* C7 as the specification states it: after an iteration that skips its
\* entry because the best known cost is no worse, the loop ends at once and
\* no other entry is popped.
StopsAtFirstPrune == [][branch = "prune" => pc' = "done"]_vars

\* C7, amended: after such an iteration every later iteration skips its
\* entry for the same reason; nothing is recorded, nothing is expanded and
\* the best known cost stays as it is.
AfterPruneOnlyPrunes ==
    [][branch = "prune" =>
          /\ branch' = "prune"
          /\ states' = states
          /\ result' = result
          /\ \A e \in BagToSet(todo') : BagIn(e, todo)]_vars

\* An entry was skipped for that reason and the queue is not empty.
AfterPruneWitness == branch = "prune" /\ pc = "loop" /\ todo # EmptyBag

\* C8: the visited table is written once per array: a recorded cost is
\* never changed, and an array is never popped at a cost below its recorded
\* cost.
VisitedWrittenOnce ==
    [][/\ \A d \in DOMAIN states : d \in DOMAIN states' /\ states'[d] = states[d]
       /\ \A i \in 1 .. Len(popped') :
             popped'[i].state.data \in DOMAIN states
                => states[popped'[i].state.data] <= popped'[i].energy]_vars

\* A recorded array was popped again and skipped.
VisitedWrittenOnceWitness ==
    /\ branch = "discard"
    /\ states[popped[1].state.data] < popped[1].energy

(***************************************************************************)
(* Properties of the graph of states (SpecMoves).                          *)
(***************************************************************************)
\* C4: the heuristic of a reachable array is at most the least summed cost
\* of a sequence of legal moves from it to an array with an empty active
\* set.
Admissible ==
    pc = "moves" => get_estimation(walk.state.data) <= TrueCost[walk.state.data]

\* A reached array with a solution that costs more than its heuristic.
AdmissibleWitness ==
    /\ pc = "moves"
    /\ walk.moved
    /\ 0 < get_estimation(walk.state.data)
    /\ get_estimation(walk.state.data) < TrueCost[walk.state.data]
    /\ TrueCost[walk.state.data] < INFINITY

\* C10 as the specification states it: no sequence of one or more legal
\* moves leads from an array back to the same array.
NoWayBack == (pc = "moves" /\ walk.moved) => walk.state.data # initial

\* C10, amended: every legal move changes the array and has a cost above 0
\* (so a sequence of moves that leads back to an array arrives there at a
\* higher accumulated cost).
EveryMoveCosts ==
    (pc = "moves" /\ walk.moved) =>
        walk.cost > 0 /\ walk.state.data # walk.parent.data

\* A sequence of moves has led back to the initial array.
WayBackWitness == pc = "moves" /\ walk.moved /\ walk.state.data = initial

(***************************************************************************)
(* Properties of the objects of the search (SpecHeap).                     *)
(***************************************************************************)
Refs(state) == {state.data, state.active_locations}

FrontierRefs(q) == UNION {Refs(e.state) : e \in BagToSet(q)}

\* No two entries of the frontier hold the same list or the same set, and
\* none holds the list or the set of the state that is being expanded.
NoSharing ==
    /\ \A e \in BagToSet(todo) :
          CopiesIn(e, todo) = 1 /\ e.state.data # e.state.active_locations
    /\ \A e1, e2 \in BagToSet(todo) :
          e1 # e2 => Refs(e1.state) \cap Refs(e2.state) = {}
    /\ pc = "expand" => FrontierRefs(todo) \cap Refs(popped[1].state) = {}

\* C9: a step of the expansion of a popped state changes neither the list
\* and the set of that state, nor those of an entry of the frontier, nor a
\* key or a cost of the visited table; and no two entries of the frontier
\* share a list or a set.
ExpansionFrame ==
    /\ []NoSharing
    /\ [][pc = "expand" =>
            /\ \A a \in Refs(popped[1].state) \cup FrontierRefs(todo) :
                  heap'[a] = heap[a]
            /\ \A d \in DOMAIN states :
                  d \in DOMAIN states' /\ states'[d] = states[d]]_vars

\* A pass of the inner loop has put a successor whose list and set differ
\* from those of the state that is being expanded.
ExpansionFrameWitness ==
    /\ pc = "expand"
    /\ \E e \in BagToSet(todo) :
          /\ e.energy > popped[1].energy
          /\ e.state.data > popped[1].state.data
          /\ heap[e.state.data] # heap[popped[1].state.data]
          /\ heap[e.state.active_locations] # heap[popped[1].state.active_locations]
    /\ heap[popped[1].state.data] \in DOMAIN states

(***************************************************************************)
(* Properties of single moves (SpecWide).                                  *)
(***************************************************************************)
\* The last step moved a unit, from walk.parent to walk.state.
Moved == pc = "moves" /\ walk.moved

\* C11: a unit enters a Home only when the slot behind the entrance is
\* empty or holds a unit of the type of that Home.
CleanInsertion ==
    (Moved /\ IsHome(walk.target)) =>
        walk.parent.data[walk.target] % 5 \in {0, HomeAmphipod(walk.target)}

\* C12: the heuristic before a legal move is at most the cost of the move
\* plus the heuristic after it.
Consistent ==
    Moved => get_estimation(walk.parent.data)
                <= walk.cost + get_estimation(walk.state.data)

\* A move that lowers the heuristic by exactly its cost, into a state where
\* something is left to do.
ConsistentWitness ==
    /\ Moved
    /\ get_estimation(walk.state.data) > 0
    /\ get_estimation(walk.parent.data)
          = walk.cost + get_estimation(walk.state.data)

\* The energy of one step for the four types.
Multiplier == <<1, 10, 100, 1000>>

\* The step inside a room that a unit leaving Home p takes from the slot
\* behind the entrance, and the one a unit entering takes to reach it.
StepOut(p, data) == IF IsHome(p) /\ data[p] \div 5 = 0 THEN 1 ELSE 0

StepIn(p, data) == IF IsHome(p) /\ data[p] % 5 = 0 THEN 1 ELSE 0

\* C13: the accumulated cost of a successor is the accumulated cost of its
\* parent plus multiplier * (link weight + step out + step in) for the type
\* of the moved unit, and the cost of a move is above 0.
MoveCost ==
    Moved =>
        LET t    == get(walk.source, walk.parent.data)
            cost == Multiplier[t] * (walk.weight
                                      + StepOut(walk.source, walk.parent.data)
                                      + StepIn(walk.target, walk.parent.data))
        IN  /\ cost > 0
            /\ walk.cost = cost
            /\ \A energy \in {0, 7, 4321} :
                  NewEntry(energy, walk.parent, walk.source,
                           <<walk.target, walk.weight>>).energy = energy + cost

\* A unit of type 4 has left the slot behind the entrance of a room.
MoveCostWitness ==
    /\ Moved
    /\ IsHome(walk.source)
    /\ get(walk.source, walk.parent.data) = 4
    /\ walk.cost = 3000

\* The number of units of type t at location p.
CountAt(p, data, t) ==
    IF IsHome(p)
    THEN (IF data[p] \div 5 = t THEN 1 ELSE 0) + (IF data[p] % 5 = t THEN 1 ELSE 0)
    ELSE IF data[p] = t THEN 1 ELSE 0

\* The number of units of type t on the board.
Count(data, t) == SumOver([p \in Locations |-> CountAt(p, data, t)], 0, 14)

\* C14: put returns 0 or 1; 0 for a Regular location; for a Home, 1 exactly
\* when a unit leaves with the entrance slot empty or enters with the slot
\* behind it empty; and put(data, 0) removes the unit that get reports.
PutSteps ==
    Moved =>
        \A p \in Locations :
            LET data == walk.state.data
                out  == put(p, data, 0)
            IN  /\ out.steps \in {0, 1}
                /\ ~IsHome(p) => out.steps = 0
                /\ IsHome(p) => (out.steps = 1 <=> data[p] \div 5 = 0)
                /\ \A t \in AllTypes :
                      /\ CountAt(p, out.data, t)
                            = CountAt(p, data, t) - (IF get(p, data) = t THEN 1 ELSE 0)
                      /\ accepts(p, data, t) =>
                            LET in == put(p, data, t)
                            IN  /\ in.steps \in {0, 1}
                                /\ ~IsHome(p) => in.steps = 0
                                /\ IsHome(p) => (in.steps = 1 <=> data[p] % 5 = 0)
                                /\ CountAt(p, in.data, t) = CountAt(p, data, t) + 1

\* After a move, one room holds two units (the first leaves without a step
\* inside the room, the second with one) and an empty room accepts a unit.
PutStepsWitness ==
    /\ Moved
    /\ \E p, q \in 11 .. 14 :
          /\ walk.state.data[p] \div 5 > 0
          /\ put(p, walk.state.data, 0).steps = 0
          /\ put(p, put(p, walk.state.data, 0).data, 0).steps = 1
          /\ walk.state.data[q] = 0
          /\ put(q, walk.state.data, HomeAmphipod(q)).steps = 1

\* C20: a move keeps the number of units of every type, and changes the
\* array at the source and at the target only.
UnitsConserved ==
    Moved =>
        /\ \A t \in AllTypes :
              Count(walk.state.data, t) = Count(walk.parent.data, t)
        /\ \A p \in Locations \ {walk.source, walk.target} :
              walk.state.data[p] = walk.parent.data[p]
        /\ walk.state.data[walk.source] # walk.parent.data[walk.source]
        /\ walk.state.data[walk.target] # walk.parent.data[walk.target]

\* A unit has left a room that held two and a second unit stayed behind.
UnitsConservedWitness ==
    /\ Moved
    /\ IsHome(walk.source)
    /\ walk.parent.data[walk.source] \div 5 > 0
    /\ walk.state.data[walk.source] \in AllTypes
    /\ walk.state.data[walk.target] \in AllTypes

\* The array is well formed: a Regular cell holds 0 .. 4, a Home holds
\* 5 * (aa // 5) + (aa % 5) with both parts in 0 .. 4 and no unit in the
\* slot at the entrance (aa // 5) over an empty slot behind it (aa % 5).
WellFormed(data) ==
    \A p \in Locations :
        IF IsHome(p)
        THEN /\ data[p] \in 0 .. 24
             /\ (data[p] \div 5) \in 0 .. 4
             /\ (data[p] % 5) \in 0 .. 4
             /\ (data[p] \div 5 # 0 => data[p] % 5 # 0)
        ELSE data[p] \in 0 .. 4

\* C21: from a well-formed initial array, every array a sequence of moves
\* reaches is well formed.
SlotsWellFormed ==
    pc = "moves" /\ WellFormed(initial) =>
        WellFormed(walk.state.data) /\ WellFormed(walk.parent.data)

\* Two moves have filled a room that was empty: the first unit went to the
\* slot behind the entrance, the second to the slot at the entrance.
SlotsWellFormedWitness ==
    /\ Moved
    /\ WellFormed(initial)
    /\ IsHome(walk.target)
    /\ initial[walk.target] = 0
    /\ walk.parent.data[walk.target] \in AllTypes
    /\ walk.state.data[walk.target] \div 5 # 0

(***************************************************************************)
(* Properties of the parse (SpecParse).                                    *)
(***************************************************************************)
\* C15: location i of the parsed array holds the unit type drawn at the
\* i-th hallway cell (i in 0 .. 10) and location 11 + j holds 5 * top +
\* bottom of the j-th room.
ParsedAsDepicted ==
    pc = "parsed" =>
        /\ \A i \in 0 .. 10 : initial[i] = AMPHIPODS[Char(lines, 1, i + 1)]
        /\ \A j \in 0 .. 3 :
              initial[11 + j] = (5 * AMPHIPODS[Char(lines, 2, (2 * j) + 3)])
                                   + AMPHIPODS[Char(lines, 3, (2 * j) + 3)]

(***************************************************************************)
(* Properties of the sea floor (SpecSea, SpecSeaFair).  The reference is   *)
(* the update on the grid of rows and columns: cell (r, c) of a floor of   *)
(* width w is element r * w + c of the array.                              *)
(***************************************************************************)
\* Every ">" with "." to its east (the row wraps) moves east, all at once.
RefEast(g, w, h) ==
    [i \in 0 .. (w * h) - 1 |->
        LET r    == i \div w
            c    == i % w
            east == g[(r * w) + ((c + 1) % w)]
            west == g[(r * w) + ((c + w - 1) % w)]
        IN  IF g[i] = ">" /\ east = "." THEN "."
            ELSE IF g[i] = "." /\ west = ">" THEN ">"
            ELSE g[i]]

\* Every "v" with "." to its south (the column wraps) moves south, all at
\* once.
RefSouth(g, w, h) ==
    [i \in 0 .. (w * h) - 1 |->
        LET r     == i \div w
            c     == i % w
            south == g[(((r + 1) % h) * w) + c]
            north == g[(((r + h - 1) % h) * w) + c]
        IN  IF g[i] = "v" /\ south = "." THEN "."
            ELSE IF g[i] = "." /\ north = "v" THEN "v"
            ELSE g[i]]

RefStep(g, w, h) == RefSouth(RefEast(g, w, h), w, h)

RECURSIVE RefAfter(_, _, _, _)
RefAfter(g, w, h, n) == IF n = 0 THEN g ELSE RefStep(RefAfter(g, w, h, n - 1), w, h)

\* The grids after 0 .. n steps from the array simulate began with.
RefGrids(n) ==
    [m \in 0 .. n |-> RefAfter(sea.start, sea.floor.width, sea.floor.height, m)]

HowMany(g, symbol) == Cardinality({i \in DOMAIN g : g[i] = symbol})

\* C16: what simulate returns is the least n >= 1 for which the grid after
\* n steps equals the grid after n - 1 steps.
FirstStill(n, g) ==
    /\ n >= 1
    /\ g[n] = g[n - 1]
    /\ \A m \in 1 .. n - 1 : g[m] # g[m - 1]

ReturnsFirstStill ==
    pc = "returned" =>
        output = <<sea.result>> /\ FirstStill(sea.result, RefGrids(sea.result))

\* simulate has returned 2 or more: a unit moved in the first step.
ReturnsFirstStillWitness == pc = "returned" /\ sea.result >= 2

\* The grids simulate has been through, after 0 .. sea.result steps.
SeenGrids == [m \in 0 .. sea.result |-> sea.grids[m + 1]]

\* Grid n is the first that equals an earlier grid, and that grid is not
\* grid n - 1.
FirstRepeat(n, g) ==
    /\ g[n] # g[n - 1]
    /\ \E m \in 0 .. n - 2 : g[m] = g[n]
    /\ \A k, m \in 0 .. n - 1 : k # m => g[k] # g[m]

\* C17: simulate ends; it raises only at the first step whose grid is a
\* grid seen before other than the preceding one, and does not raise when
\* the grid equals the preceding one; it returns only then.
EndsOrRaises ==
    /\ <>(pc \in {"returned", "raised"})
    /\ [](pc = "raised" =>
            /\ output = <<"ValueError">>
            /\ FirstRepeat(sea.result, SeenGrids))
    /\ [](pc = "returned" => sea.floor.data = sea.before)

\* simulate has raised on a floor with one sea cucumber that went round.
EndsOrRaisesWitness ==
    /\ pc = "raised"
    /\ sea.result >= 2
    /\ HowMany(sea.start, ".") = (sea.floor.width * sea.floor.height) - 1
    /\ sea.floor.data = sea.start

\* C18: one _move is the move east of every ">" that can move, then the
\* move south of every "v" that can move in the grid after the first; the
\* array is in row-major order again and holds as many ">" and as many "v"
\* as before.
MoveIsTwoPhase ==
    (pc \in {"simulate", "returned", "raised"} /\ sea.result >= 1) =>
        /\ sea.floor.data
              = RefStep(sea.before, sea.floor.width, sea.floor.height)
        /\ HowMany(sea.floor.data, ">") = HowMany(sea.before, ">")
        /\ HowMany(sea.floor.data, "v") = HowMany(sea.before, "v")

\* On a floor that is not square, a ">" moved east and a "v" moved south
\* in one _move, the "v" into the cell the ">" had left.
MoveIsTwoPhaseWitness ==
    /\ pc \in {"simulate", "returned", "raised"}
    /\ sea.result >= 1
    /\ sea.floor.width # sea.floor.height
    /\ \E i \in DOMAIN sea.before :
          /\ sea.before[i] = ">"
          /\ sea.floor.data[i] = "v"


\* The run of a program on one input, instruction by instruction from
\* state: the last state in a tuple, or the empty tuple where an
\* instruction raises.
RECURSIVE RunFrom(_, _, _)
RunFrom(code, state, input) ==
    IF state.ip >= Len(code) THEN <<state>>
    ELSE LET instruction == code[state.ip + 1]
         IN  IF instruction.name = "inp"
             THEN RunFrom(code,
                          transform(state, instruction.dst_index, Head(input)),
                          Tail(input))
             ELSE IF instruction.name \in {"div", "mod"}
                     /\ Accessed(instruction, state) = 0
                  THEN << >>
                  ELSE RunFrom(code, BinOp_execute(instruction, state, << >>)[1][1],
                               input)

InpCount(code) == Cardinality({i \in DOMAIN code : code[i].name = "inp"})

\* The inputs with one digit for each inp on which the program finishes
\* with z = 0.
AcceptedInputs(code) ==
    {input \in [1 .. InpCount(code) -> 1 .. 9] :
        LET last == RunFrom(code, State(0, <<0, 0, 0, 0>>), input)
        IN  last # << >> /\ last[1].variables[3 + 1] = 0}

RECURSIVE Number(_)
Number(input) ==
    IF input = << >> THEN 0
    ELSE (10 * Number(SubSeq(input, 1, Len(input) - 1))) + input[Len(input)]

LargestOf(inputs) ==
    CHOOSE input \in inputs : \A other \in inputs : Number(other) <= Number(input)

\* What main should have printed for the program: the largest accepted
\* input, or nothing.
Expected(inputs) == IF inputs = {} THEN << >> ELSE <<LargestOf(inputs)>>

\* C19: when main is over it has printed the largest input on which the
\* program finishes with z = 0, and nothing when there is none.
PrintsLargest ==
    pc \in {"printed", "ended", "raised"} /\ alu # << >> =>
        output = Expected(AcceptedInputs(alu.code))


\* A run of main that ends without an exception has printed the largest
\* accepted input, or nothing when there is none: the visited set loses
\* nothing.
PrintsLargestUnlessRaised ==
    pc \in {"printed", "ended"} /\ alu # << >> =>
        output = Expected(AcceptedInputs(alu.code))

=============================================================================
